---- MODULE Spec2Model ----
(***************************************************************************)
(* The `add <extension-name> [extensions.json]` command of the extension   *)
(* pack validator: the command's action (cli.ts), and the helpers of       *)
(* utils.ts it calls (resolution of the pack, membership check against     *)
(* Open VSX, enrichment of the absent members, classification), as one     *)
(* state machine.  Remote services answer nondeterministically.            *)
(***************************************************************************)
EXTENDS Integers, Sequences, FiniteSets, TLC

VARIABLES
    argv,                 \* the flags given on the command line
    repoPackageJson,      \* what the content API answers for the pack's package.json
    file,                 \* the extensions file on disk: [exists, extensions]
    tables,               \* the deprecation table and the ineligibility list
    pc,                   \* position of the command's action
    exitCode,             \* the process's exit status (read when pc = "done")
    output,               \* what was printed (console.log / console.error)
    openVsxExtensionList, \* keys of the map built by ensureExtensionsFileAndReturnMap
    lookups,              \* checkExtensions...: the ids looked up live and their promises
    extensions,           \* checkExtensions...'s result: [all, found, notfound]
    branches,             \* the enrichment promises, one per notfound record
    result,               \* getExtensionThatNotPresentOnOpenVSX's result
    extensionsToAdd,      \* the action's extensionsToAdd / addExtensions' argument
    added,                \* addExtensions: the in-memory list and the entries pushed
    hooks,                \* onDidAddExtension calls, in order
    writes                \* number of writes of the extensions file

vars == << argv, repoPackageJson, file, tables, pc, exitCode, output,
           openVsxExtensionList, lookups, extensions, branches, result,
           extensionsToAdd, added, hooks, writes >>

-----------------------------------------------------------------------------
(* Bounds of the model *)

\* the longest member list a package.json declares
MaxMembers == 2

\* the most absent members whose enrichment and classification is followed
\* from the return of the membership check
MaxCandidates == 3

-----------------------------------------------------------------------------
(* Values *)

Null == "<null>"

\* the <extension-name> argument of the command
extensionPackName == "a.pack"

deprecatedExtensionsMap ==
    [id \in {"peterjausovec.vscode-docker"} |-> "ms-azuretools.vscode-docker"]

extensionsDontMeetOpenVSXConditons ==
    << "wallabyjs.quokka-vscode", "visualstudioexptteam.vscodeintellicode" >>

\* ids.includes: the license ids of spdx-license-ids the model's repositories use
SpdxLicenseIds == {"MIT", "Apache-2.0"}

\* the identifiers a manifest may list
ManifestIds ==
    {"peterjausovec.vscode-docker", "wallabyjs.quokka-vscode",
     "x.one", "y.two", extensionPackName}

\* String.prototype.toLowerCase on the identifiers of the model
ToLowerCase(s) ==
    CASE s = "X.One" -> "x.one"
      [] s = "A.Pack" -> "a.pack"
      [] OTHER -> s

\* extName: `${publisherName}.${name}`.toLowerCase()
extName(id) == ToLowerCase(id)

SeqsUpTo(S, n) == UNION {[1..k -> S] : k \in 0..n}

Range(s) == {s[i] : i \in DOMAIN s}

\* Array.prototype.includes / find(itm => itm === name)
Includes(s, x) == \E i \in DOMAIN s : s[i] = x

\* Date.parse of a lastUpdated string: '' is an Invalid Date
DateOf(s) ==
    CASE s = "2020-01-01" -> [valid |-> TRUE, time |-> 20200101]
      [] s = "2021-01-01" -> [valid |-> TRUE, time |-> 20210101]
      [] OTHER -> [valid |-> FALSE, time |-> 0]

\* the lastUpdated values the marketplace reports
Timestamps == {"2020-01-01", "2021-01-01"}

-----------------------------------------------------------------------------
(* Command line: commander stores an option under the camel-cased name *)

Capitalize(w) ==
    CASE w = "extensions" -> "Extensions"
      [] w = "with" -> "With"
      [] w = "license" -> "License"
      [] OTHER -> w

\* commander's camelcase of an option's long name, split at '-'
Camelcase(words) ==
    [i \in DOMAIN words |-> IF i = 1 THEN words[i] ELSE Capitalize(words[i])]

\* the options declared on the add command
OptionWords(flag) ==
    CASE flag = "--add-extensions-with-license" ->
             << "add", "extensions", "with", "license" >>
      [] flag = "--itself" -> << "itself" >>

Flags == {"--add-extensions-with-license", "--itself"}

\* the properties commander sets on the command object for the flags given
ProgramOptions(given) == {Camelcase(OptionWords(f)) : f \in given}

\* program.itself
ProgramItself(given) == << "itself" >> \in ProgramOptions(given)

\* program.addExtensionsWithlicense
ProgramAddExtensionsWithlicense(given) ==
    << "add", "Extensions", "With", "license" >> \in ProgramOptions(given)

-----------------------------------------------------------------------------
(* Remote answers *)

\* the `repository` field of an extension's manifest: a URL string, an
\* object with a url (which may be empty or missing), null, or no field.  The
\* URL of the repository of an extension is written as the extension's
\* identifier, with or without the suffix .git
RepositoryFields ==
    [shape : {"string", "object"}, suffix : {"", ".git"}, url : {"repo"}]
    \cup [shape : {"object"}, suffix : {""}, url : {"", Null}]
    \cup [shape : {"undefined", "null"}, suffix : {""}, url : {Null}]

\* getExtInfoFromMicrosoftStore: no match (undefined), or an extension whose
\* first version has or lacks the manifest asset, and the repository field of
\* its manifest
MarketplaceAnswers ==
    [kind : {"noMatch", "noAsset"}, lastUpdated : {""},
     repository : {[shape |-> "undefined", suffix |-> "", url |-> Null]}]
    \cup [kind : {"ok"}, lastUpdated : Timestamps, repository : RepositoryFields]

\* the URL string a repository field of extension id holds
UrlOf(id, repository) ==
    IF repository.url = "repo" THEN id \o repository.suffix ELSE repository.url

\* /\.git$/ on a URL
EndsWithGit(url) ==
    Len(url) >= 4 /\ SubSeq(url, Len(url) - 3, Len(url)) = ".git"

\* GitUrlParse(url) with git_suffix = false, then toString('https'): the URL
\* without the suffix .git
ToStringWithoutGitSuffix(url) ==
    IF EndsWithGit(url) THEN SubSeq(url, 1, Len(url) - 4) ELSE url

\* getExtManifest whose string branch returns GitUrlParse(repository) alone,
\* which has no repoUrl
getExtManifest_NoRepoUrl(id, repository) ==
    CASE repository.shape = "string" ->
             [threw |-> FALSE, message |-> "", repoUrl |-> Null]
      [] repository.shape \in {"undefined", "null"} ->
             [threw |-> TRUE, message |-> "Cannot read property 'url'", repoUrl |-> Null]
      [] repository.url \in {"", Null} ->
             [threw |-> TRUE, message |-> "repoUrl should be valid url", repoUrl |-> Null]
      [] OTHER ->
             [threw |-> FALSE, message |-> "",
              repoUrl |-> ToStringWithoutGitSuffix(UrlOf(id, repository))]

\* getExtManifest: the repository coordinates, or the error thrown
getExtManifest(id, repository) ==
    CASE repository.shape = "string" ->
             [threw |-> FALSE, message |-> "", repoUrl |-> UrlOf(id, repository)]
      [] repository.shape \in {"undefined", "null"} ->
             [threw |-> TRUE, message |-> "Cannot read property 'url'",
              repoUrl |-> Null]
      [] repository.url \in {"", Null} ->
             [threw |-> TRUE, message |-> "repoUrl should be valid url",
              repoUrl |-> Null]
      [] OTHER ->
             [threw |-> FALSE, message |-> "",
              repoUrl |-> ToStringWithoutGitSuffix(UrlOf(id, repository))]

\* getRepoByVsixManifest: the repository, or the error thrown
getRepoByVsixManifest(id, ext) ==
    CASE ext.kind = "noMatch" ->
             [threw |-> TRUE, message |-> "Extension should not be empty",
              repoUrl |-> Null]
      [] ext.kind = "noAsset" ->
             [threw |-> TRUE,
              message |-> "assetUrl should be valid url to ext manifest",
              repoUrl |-> Null]
      [] OTHER -> getExtManifest(id, ext.repository)

\* what Open VSX answers to GET /api/{publisher}/{name}: the extension, a
\* body with an `error` field, a JSON body with neither (no namespace, no
\* name), or no usable answer (the request or the parsing of the body fails)
Responses == {"extension", "errorBody", "otherBody", "transportFailure"}

\* findExtByNameInOpenVSX without its .catch: a transport failure rejects
findExtByNameInOpenVSX_NoCatch(id, response) ==
    CASE response = "extension" -> [kind |-> "extension", id |-> id]
      [] response = "otherBody" -> [kind |-> "extension", id |-> "undefined.undefined"]
      [] response = "errorBody" -> [kind |-> "notFound", id |-> ToLowerCase(id)]
      [] OTHER -> [kind |-> "throw", id |-> ToLowerCase(id)]

\* findExtByNameInOpenVSX: the extension, or the typed not-found record
findExtByNameInOpenVSX(id, response) ==
    CASE response = "extension" -> [kind |-> "extension", id |-> id]
      [] response = "otherBody" -> [kind |-> "extension", id |-> "undefined.undefined"]
      [] OTHER -> [kind |-> "notFound", id |-> ToLowerCase(id)]

\* the member list taken from extensionDependencies first
extractExtensionPackFromPackageJson_DependenciesFirst(pkg) ==
    LET chosen == IF "extensionDependencies" \in DOMAIN pkg
                  THEN pkg["extensionDependencies"]
                  ELSE IF "extensionPack" \in DOMAIN pkg
                       THEN pkg["extensionPack"]
                       ELSE << >>
    IN [i \in DOMAIN chosen |-> ToLowerCase(chosen[i])]

\* extractExtensionPackFromPackageJson: (pkg.extensionPack ||
\* pkg.extensionDependencies || []).map(itm => itm.toLowerCase()); a field that
\* is present holds an array, which is truthy also when empty
extractExtensionPackFromPackageJson(pkg) ==
    LET chosen == IF "extensionPack" \in DOMAIN pkg
                  THEN pkg["extensionPack"]
                  ELSE IF "extensionDependencies" \in DOMAIN pkg
                       THEN pkg["extensionDependencies"]
                       ELSE << >>
    IN [i \in DOMAIN chosen |-> ToLowerCase(chosen[i])]

\* downloadPackageJsonFromGithub without its last return: absent content
\* gives undefined, and reading a field of it throws
downloadPackageJsonFromGithub_NoDefault(answer) ==
    CASE answer.kind = "httpError" ->
             [threw |-> TRUE, message |-> "Not Found", pkg |-> << >>]
      [] answer.kind = "badJson" ->
             [threw |-> TRUE, message |-> "Unexpected token", pkg |-> << >>]
      [] answer.kind \in {"noContent", "notBase64"} ->
             [threw |-> TRUE, message |-> "Cannot read property of undefined",
              pkg |-> << >>]
      [] OTHER ->
             [threw |-> FALSE, message |-> "", pkg |-> answer.pkg]

\* downloadPackageJsonFromGithub: the package, or the error thrown.  The
\* content API answers with the file (content), with an error status
\* (httpError: no package.json), with no content field (noContent), with
\* content that is not base64 (notBase64) or that does not decode to JSON
\* (badJson)
downloadPackageJsonFromGithub(answer) ==
    CASE answer.kind = "httpError" ->
             [threw |-> TRUE, message |-> "Not Found", pkg |-> << >>]
      [] answer.kind = "badJson" ->
             [threw |-> TRUE, message |-> "Unexpected token", pkg |-> << >>]
      [] answer.kind \in {"noContent", "notBase64"} ->
             [threw |-> FALSE, message |-> "",
              pkg |-> [f \in {"extensionPack", "extensionDependencies"} |-> << >>]]
      [] OTHER ->
             [threw |-> FALSE, message |-> "", pkg |-> answer.pkg]

\* addLinks: one record per identifier
addLinks(items) ==
    [i \in DOMAIN items |->
        [name |-> items[i], repoUrl |-> Null, license |-> Null,
         licenseUrl |-> Null, lastUpdated |-> ""]]

-----------------------------------------------------------------------------
(* lodash sortBy(array, itm => new Date(itm.lastUpdated)): the comparer of    *)
(* lodash's baseOrderBy run by Array.prototype.sort (V8's TimSort, which for  *)
(* fewer than 64 elements is one run followed by a binary insertion sort)     *)

\* compareAscending on two Date criteria: an Invalid Date is neither greater
\* nor smaller than any other
compareAscending(value, other) ==
    IF value.valid /\ other.valid
    THEN IF value.time > other.time THEN 1
         ELSE IF value.time < other.time THEN -1 ELSE 0
    ELSE 0

\* compareMultiple: the criteria, then the positions in the input
compareMultiple(object, other) ==
    LET r == compareAscending(object.criteria, other.criteria)
    IN IF r # 0 THEN r ELSE object.index - other.index

Reverse(s) == [i \in DOMAIN s |-> s[Len(s) + 1 - i]]

\* CountAndMakeRun's loop: the length of the run that starts the array;
\* idx is the (1-based) position of the next element to look at
RECURSIVE RunLength(_, _, _)
RunLength(arr, isDescending, idx) ==
    IF idx > Len(arr) THEN idx - 1
    ELSE LET order == compareMultiple(arr[idx], arr[idx - 1])
         IN IF (isDescending /\ order >= 0) \/ (~isDescending /\ order < 0)
            THEN idx - 1
            ELSE RunLength(arr, isDescending, idx + 1)

\* BinaryInsertionSort's search: left and right are 0-based
RECURSIVE BinarySearch(_, _, _, _)
BinarySearch(arr, pivot, left, right) ==
    IF left >= right THEN left
    ELSE LET mid == left + ((right - left) \div 2)
         IN IF compareMultiple(pivot, arr[mid + 1]) < 0
            THEN BinarySearch(arr, pivot, left, mid)
            ELSE BinarySearch(arr, pivot, mid + 1, right)

\* BinaryInsertionSort: start is the 0-based position of the first element
\* outside the sorted prefix
RECURSIVE BinaryInsertionSort(_, _)
BinaryInsertionSort(arr, start) ==
    IF start >= Len(arr) THEN arr
    ELSE LET pivot == arr[start + 1]
             left == BinarySearch(arr, pivot, 0, start)
             moved == [p \in DOMAIN arr |->
                         IF p - 1 < left \/ p - 1 > start THEN arr[p]
                         ELSE IF p - 1 = left THEN pivot
                         ELSE arr[p - 1]]
         IN BinaryInsertionSort(moved, start + 1)

\* Array.prototype.sort with lodash's comparer
ArraySort(arr) ==
    IF Len(arr) < 2 THEN arr
    ELSE LET isDescending == compareMultiple(arr[2], arr[1]) < 0
             run == RunLength(arr, isDescending, 3)
             made == IF isDescending
                     THEN Reverse(SubSeq(arr, 1, run)) \o SubSeq(arr, run + 1, Len(arr))
                     ELSE arr
         IN BinaryInsertionSort(made, run)

sortBy(array) ==
    LET wrapped == [i \in DOMAIN array |->
                      [criteria |-> DateOf(array[i].lastUpdated),
                       index |-> i, value |-> array[i]]]
        sorted == ArraySort(wrapped)
    IN [i \in DOMAIN sorted |-> sorted[i].value]

-----------------------------------------------------------------------------
(* Inputs *)

\* the package.json the pack's repository may hold
PackageJsons ==
    {[f \in {"extensionPack"} |-> l] : l \in SeqsUpTo(ManifestIds, MaxMembers)}
    \cup {[f \in {"extensionDependencies"} |-> l] : l \in {<< >>, << "x.one" >>}}
    \cup {[f \in {"extensionPack", "extensionDependencies"} |->
             IF f = "extensionPack" THEN << >> ELSE << "x.one" >>]}
    \cup {[f \in {"extensionPack", "extensionDependencies"} |->
             IF f = "extensionPack" THEN << "y.two", "X.One" >> ELSE << "x.one" >>]}
    \cup {[f \in {"extensionDependencies"} |-> << "X.One" >>]}
    \cup {[f \in {} |-> << >>]}

PackageJsonAnswers ==
    [kind : {"content"}, pkg : PackageJsons]
    \cup [kind : {"httpError", "badJson", "noContent", "notBase64"},
          pkg : {[f \in {} |-> << >>]}]

\* the extensions file the command is pointed at
FileInputs ==
    {[exists |-> FALSE, extensions |-> << >>],
     [exists |-> TRUE, extensions |-> << >>],
     [exists |-> TRUE, extensions |-> << "x.one", "peterjausovec.vscode-docker" >>],
     [exists |-> TRUE, extensions |-> << "X.One" >>]}

\* what downloadOpenVsxExtensionsList finds in open-vsx/publish-extensions
RegistryListing == << "x.one" >>

\* the repository API's answer about the license of a repository
LicenseAnswers ==
    [kind : {"httpError", "noLicense"}, spdx_id : {Null}, html_url : {Null}]
    \cup [kind : {"license"}, spdx_id : {"MIT", "NOASSERTION", "mit", ""},
          html_url : {"https://github.com/LICENSE"}]

NoExtensions == [all |-> << >>, found |-> << >>, notfound |-> << >>]

EmptyMap == [n \in {} |-> Null]

NoResult ==
    [all |-> EmptyMap, notFoundWithlicense |-> << >>, notFoundWithoutlicense |-> << >>,
     deprecatedExtensions |-> << >>, dontMeetConditions |-> << >>]

\* the state of the action when the command starts
InitAction ==
    /\ pc = "start"
    /\ exitCode = 0
    /\ output = {}
    /\ openVsxExtensionList = {}
    /\ lookups = << >>
    /\ extensions = NoExtensions
    /\ branches = << >>
    /\ result = NoResult
    /\ extensionsToAdd = << >>
    /\ added = [extensions |-> << >>, pushed |-> << >>]
    /\ hooks = << >>
    /\ writes = << >>

Init ==
    /\ argv \in SUBSET Flags
    /\ repoPackageJson \in PackageJsonAnswers
    /\ file \in FileInputs
    /\ tables = [deprecated |-> DOMAIN deprecatedExtensionsMap,
                 ineligible |-> extensionsDontMeetOpenVSXConditons]
    /\ InitAction

\* the classification tables as fixtures: any deprecation table and any
\* ineligibility list over the members, for a pack of regular members
TableFixtures ==
    [deprecated : SUBSET {"x.one"}, ineligible : {<< >>, << "x.one" >>}]

InitTables ==
    /\ argv = {"--itself"}
    /\ repoPackageJson \in
           [kind : {"content"},
            pkg : {[f \in {"extensionPack"} |-> l] :
                      l \in SeqsUpTo({"x.one", "y.two"}, MaxMembers) \ {<< >>}}]
    /\ file = [exists |-> TRUE, extensions |-> << >>]
    /\ tables \in TableFixtures
    /\ InitAction

\* the action after checkExtensionsInOpenVsxFromVSCodeMarketplace has returned
\* for a pack none of whose members Open VSX holds: every member is a notfound
\* record whose enrichment starts
InitEnrich ==
    /\ argv = {}
    /\ \E list \in SeqsUpTo({"x.one", "y.two", "z.three"}, MaxCandidates) \ {<< >>} :
          /\ repoPackageJson = [kind |-> "content",
                                pkg |-> [f \in {"extensionPack"} |-> list]]
          /\ extensions = [all |-> list, found |-> << >>, notfound |-> addLinks(list)]
          /\ branches = [i \in DOMAIN list |-> "marketplace"]
    /\ file = [exists |-> TRUE, extensions |-> << >>]
    /\ tables = [deprecated |-> DOMAIN deprecatedExtensionsMap,
                 ineligible |-> extensionsDontMeetOpenVSXConditons]
    /\ pc = "enrich"
    /\ exitCode = 0
    /\ output = {}
    /\ openVsxExtensionList = {}
    /\ lookups = << >>
    /\ result = NoResult
    /\ extensionsToAdd = << >>
    /\ added = [extensions |-> << >>, pushed |-> << >>]
    /\ hooks = << >>
    /\ writes = << >>

-----------------------------------------------------------------------------
(* The action of the add command *)

\* catch (err) { console.error(err); console.error(err.message) }: the action
\* returns, and the process ends with the status it has
Catch(message) ==
    /\ pc' = "done"
    /\ output' = output \cup {message}
    /\ UNCHANGED exitCode

\* const extPackInfo = await getExtInfoFromMicrosoftStore(name)
\* const repo = await getRepoByVsixManifest(extPackInfo)
ResolvePack ==
    /\ pc = "start"
    /\ \E ext \in MarketplaceAnswers :
         LET repo == getRepoByVsixManifest(extensionPackName, ext)
         IN IF repo.threw
            THEN Catch(repo.message)
            ELSE /\ pc' = "selfLookup"
                 /\ UNCHANGED << output, exitCode >>
    /\ UNCHANGED << argv, repoPackageJson, file, tables, openVsxExtensionList,
                    lookups, extensions, branches, result, extensionsToAdd,
                    added, hooks, writes >>

\* the lookup of the name itself without process.exit(0): the message is
\* printed and the action goes on
SelfLookup_NoExit ==
    /\ pc = "selfLookup"
    /\ \E response \in Responses :
         LET ext == findExtByNameInOpenVSX(extensionPackName, response)
         IN IF ext.kind = "throw"
            THEN Catch("FetchError")
            ELSE /\ pc' = "isExtensionPack"
                 /\ output' = IF ext.kind # "notFound"
                              THEN output \cup {"Extension is already published!"}
                              ELSE output
                 /\ UNCHANGED exitCode
    /\ UNCHANGED << argv, repoPackageJson, file, tables, openVsxExtensionList,
                    lookups, extensions, branches, result, extensionsToAdd,
                    added, hooks, writes >>

\* const ext = await findExtByNameInOpenVSX(publisher, extname)
\* if (!('notFound' in ext)) { console.log(...); process.exit(0) }
SelfLookup ==
    /\ pc = "selfLookup"
    /\ \E response \in Responses :
         LET ext == findExtByNameInOpenVSX(extensionPackName, response)
         IN IF ext.kind = "throw"
            THEN Catch("FetchError")
            ELSE IF ext.kind # "notFound"
            THEN /\ pc' = "done"
                 /\ exitCode' = 0
                 /\ output' = output \cup {"Extension is already published!"}
            ELSE /\ pc' = "isExtensionPack"
                 /\ UNCHANGED << output, exitCode >>
    /\ UNCHANGED << argv, repoPackageJson, file, tables, openVsxExtensionList,
                    lookups, extensions, branches, result, extensionsToAdd,
                    added, hooks, writes >>

\* if (await isExtensionPack(name)) ... else console.log('Adding extension by
\* name is not supported!')
IsExtensionPack ==
    /\ pc = "isExtensionPack"
    /\ \E ext \in MarketplaceAnswers :
         LET repo == getRepoByVsixManifest(extensionPackName, ext)
             got == downloadPackageJsonFromGithub(repoPackageJson)
         IN IF ext.kind = "noMatch"
            THEN Catch("Extension (name) not found")
            ELSE IF repo.threw
            THEN Catch(repo.message)
            ELSE IF got.threw
            THEN Catch(got.message)
            ELSE IF Len(extractExtensionPackFromPackageJson(got.pkg)) > 0
            THEN /\ pc' = "ensureExtensionsFile"
                 /\ UNCHANGED << output, exitCode >>
            ELSE /\ pc' = "done"
                 /\ output' = output \cup {"Adding extension by name is not supported!"}
                 /\ UNCHANGED exitCode
    /\ UNCHANGED << argv, repoPackageJson, file, tables, openVsxExtensionList,
                    lookups, extensions, branches, result, extensionsToAdd,
                    added, hooks, writes >>

\* ensureExtensionsFileAndReturnMap(extensionsFile)
ensureExtensionsFileAndReturnMap ==
    /\ pc = "ensureExtensionsFile"
    /\ \E download \in {"ok", "httpError"} :
         IF ~file.exists /\ download = "httpError"
         THEN /\ Catch("Not Found")
              /\ UNCHANGED << file, writes, openVsxExtensionList >>
         ELSE LET onDisk == IF file.exists THEN file
                            ELSE [exists |-> TRUE, extensions |-> RegistryListing]
              IN /\ file' = onDisk
                 /\ writes' = IF file.exists THEN writes
                              ELSE Append(writes, "outputJSONSync")
                 /\ openVsxExtensionList' =
                        {ToLowerCase(onDisk.extensions[i]) : i \in DOMAIN onDisk.extensions}
                 /\ pc' = "checkExtensions"
                 /\ UNCHANGED << output, exitCode >>
    /\ UNCHANGED << argv, repoPackageJson, tables, lookups, extensions, branches,
                    result, extensionsToAdd, added, hooks >>

\* checkExtensionsInOpenVsxFromVSCodeMarketplace, up to the start of the live
\* lookups: the member list, the members missing from the map, and the pack
CheckStart ==
    /\ pc = "checkExtensions"
    /\ \E ext \in MarketplaceAnswers :
         LET repo == getRepoByVsixManifest(extensionPackName, ext)
             got == downloadPackageJsonFromGithub(repoPackageJson)
             list == extractExtensionPackFromPackageJson(got.pkg)
             notfound == Append(SelectSeq(list, LAMBDA id : id \notin openVsxExtensionList),
                                extensionPackName)
         IN IF repo.threw
            THEN /\ Catch("Extension pack not found")
                 /\ UNCHANGED << lookups, extensions >>
            ELSE IF got.threw
            THEN /\ Catch(got.message)
                 /\ UNCHANGED << lookups, extensions >>
            ELSE /\ pc' = "lookups"
                 /\ lookups' = [i \in DOMAIN notfound |->
                                   [id |-> notfound[i], response |-> "none",
                                    ext |-> [kind |-> "pending", id |-> notfound[i]]]]
                 /\ extensions' = [NoExtensions EXCEPT !.all = list]
                 /\ UNCHANGED << output, exitCode >>
    /\ UNCHANGED << argv, repoPackageJson, file, tables, openVsxExtensionList,
                    branches, result, extensionsToAdd, added, hooks, writes >>

\* one live lookup settles
Lookup(i) ==
    /\ pc = "lookups"
    /\ lookups[i].ext.kind = "pending"
    /\ \E response \in Responses :
         lookups' = [lookups EXCEPT
                        ![i].response = response,
                        ![i].ext = findExtByNameInOpenVSX(lookups[i].id, response)]
    /\ UNCHANGED << argv, repoPackageJson, file, tables, pc, exitCode, output,
                    openVsxExtensionList, extensions, branches, result,
                    extensionsToAdd, added, hooks, writes >>

\* Promise.all over the lookups: rejects with the first rejection, resolves
\* when all have resolved; then the found / notfound lists are built and
\* the enrichment of the notfound records starts
CheckReturn ==
    /\ pc = "lookups"
    /\ \/ \E i \in DOMAIN lookups : lookups[i].ext.kind = "throw"
       \/ \A i \in DOMAIN lookups : lookups[i].ext.kind # "pending"
    /\ IF \E i \in DOMAIN lookups : lookups[i].ext.kind = "throw"
       THEN /\ Catch("FetchError")
            /\ UNCHANGED << lookups, extensions, branches >>
       ELSE LET extensionsFromOpenVSXMap ==
                    {extName(lookups[i].ext.id) :
                        i \in {j \in DOMAIN lookups : lookups[j].ext.kind = "extension"}}
                present(id) == id \in openVsxExtensionList
                               \/ id \in extensionsFromOpenVSXMap
                list == extensions.all
                notfound == addLinks(SelectSeq(list, LAMBDA id : ~present(id)))
            IN /\ extensions' =
                      [all |-> list,
                       found |-> addLinks(SelectSeq(list, present)),
                       notfound |-> notfound]
               /\ branches' = [i \in DOMAIN notfound |-> "marketplace"]
               /\ lookups' = << >>
               /\ pc' = "enrich"
               /\ UNCHANGED << output, exitCode >>
    /\ UNCHANGED << argv, repoPackageJson, file, tables, openVsxExtensionList,
                    result, extensionsToAdd, added, hooks, writes >>

-----------------------------------------------------------------------------
(* Enrichment: one branch per notfound record, joined by Promise.allSettled *)

\* getlicenseSpdxIdByRepoName: the license, or the error thrown (the request
\* fails, or info.license is null and cannot be destructured)
getlicenseSpdxIdByRepoName(answer) ==
    IF answer.kind = "license"
    THEN [threw |-> FALSE, spdx_id |-> answer.spdx_id, html_url |-> answer.html_url]
    ELSE [threw |-> TRUE, spdx_id |-> Null, html_url |-> Null]

\* the branch of record i up to its second await: the marketplace entry and
\* the repository; writes repoUrl and lastUpdated
EnrichRepo(i) ==
    /\ pc = "enrich"
    /\ branches[i] = "marketplace"
    /\ \E info \in MarketplaceAnswers :
         LET repo == getRepoByVsixManifest(extensions.notfound[i].name, info)
         IN IF repo.threw
            THEN /\ branches' = [branches EXCEPT ![i] = "rejected"]
                 /\ UNCHANGED extensions
            ELSE /\ branches' = [branches EXCEPT ![i] = "license"]
                 /\ extensions' = [extensions EXCEPT
                                      !.notfound[i].repoUrl = repo.repoUrl,
                                      !.notfound[i].lastUpdated = info.lastUpdated]
    /\ UNCHANGED << argv, repoPackageJson, file, tables, pc, exitCode, output,
                    openVsxExtensionList, lookups, result, extensionsToAdd,
                    added, hooks, writes >>

\* the rest of the branch with `item` shared by the branches: every branch
\* writes the license into the first record
EnrichLicense_SharedItem(i) ==
    /\ pc = "enrich"
    /\ branches[i] = "license"
    /\ \E answer \in LicenseAnswers :
         LET got == getlicenseSpdxIdByRepoName(answer)
         IN IF got.threw
            THEN /\ branches' = [branches EXCEPT ![i] = "rejected"]
                 /\ UNCHANGED extensions
            ELSE /\ branches' = [branches EXCEPT ![i] = "fulfilled"]
                 /\ extensions' = [extensions EXCEPT
                                      !.notfound[1].licenseUrl = got.html_url,
                                      !.notfound[1].license = got.spdx_id]
    /\ UNCHANGED << argv, repoPackageJson, file, tables, pc, exitCode, output,
                    openVsxExtensionList, lookups, result, extensionsToAdd,
                    added, hooks, writes >>

\* the rest of the branch: the license; writes licenseUrl and license
EnrichLicense(i) ==
    /\ pc = "enrich"
    /\ branches[i] = "license"
    /\ \E answer \in LicenseAnswers :
         LET got == getlicenseSpdxIdByRepoName(answer)
         IN IF got.threw
            THEN /\ branches' = [branches EXCEPT ![i] = "rejected"]
                 /\ UNCHANGED extensions
            ELSE /\ branches' = [branches EXCEPT ![i] = "fulfilled"]
                 /\ extensions' = [extensions EXCEPT
                                      !.notfound[i].licenseUrl = got.html_url,
                                      !.notfound[i].license = got.spdx_id]
    /\ UNCHANGED << argv, repoPackageJson, file, tables, pc, exitCode, output,
                    openVsxExtensionList, lookups, result, extensionsToAdd,
                    added, hooks, writes >>

-----------------------------------------------------------------------------
(* Classification *)

\* extensions.all.filter(name => deprecatedExtensionsMap.has(name))
DeprecatedExtensions(all) ==
    SelectSeq(all, LAMBDA name : name \in tables.deprecated)

\* extensions.all.filter(name => Boolean(extensionsDontMeetOpenVSXConditons.find(...)))
DontMeetConditions(all) ==
    SelectSeq(all, LAMBDA name : Includes(tables.ineligible, name))

\* the licensed bucket without the exclusion of the deprecated members
NotFoundWithlicense_NoPrecedence(notfound, deprecatedExtensions, dontMeetConditions) ==
    SelectSeq(notfound, LAMBDA itm :
        /\ itm.license \in SpdxLicenseIds
        /\ ~Includes(dontMeetConditions, itm.name))

\* the licensed bucket with the license compared without regard to case
NotFoundWithlicense_IgnoreCase(notfound, deprecatedExtensions, dontMeetConditions) ==
    SelectSeq(notfound, LAMBDA itm :
        /\ (itm.license \in SpdxLicenseIds \/ itm.license = "mit")
        /\ ~Includes(deprecatedExtensions, itm.name)
        /\ ~Includes(dontMeetConditions, itm.name))

\* notfound.filter(itm => ids.includes(itm.license) && !deprecated... && !dontMeet...)
NotFoundWithlicense(notfound, deprecatedExtensions, dontMeetConditions) ==
    SelectSeq(notfound, LAMBDA itm :
        /\ itm.license \in SpdxLicenseIds
        /\ ~Includes(deprecatedExtensions, itm.name)
        /\ ~Includes(dontMeetConditions, itm.name))

\* the unlicensed bucket without the records whose license is still null
NotFoundWithoutlicense_NullDropped(notfound, deprecatedExtensions, dontMeetConditions) ==
    SelectSeq(notfound, LAMBDA itm :
        /\ itm.license # Null
        /\ itm.license \notin SpdxLicenseIds
        /\ ~Includes(deprecatedExtensions, itm.name)
        /\ ~Includes(dontMeetConditions, itm.name))

\* notfound.filter(itm => !ids.includes(itm.license) && !deprecated... && !dontMeet...)
NotFoundWithoutlicense(notfound, deprecatedExtensions, dontMeetConditions) ==
    SelectSeq(notfound, LAMBDA itm :
        /\ itm.license \notin SpdxLicenseIds
        /\ ~Includes(deprecatedExtensions, itm.name)
        /\ ~Includes(dontMeetConditions, itm.name))

\* new Map(notfound.map(itm => [itm.name, itm])): the last record of a name
MapByName(notfound) ==
    [n \in {notfound[i].name : i \in DOMAIN notfound} |->
        LET last == CHOOSE i \in DOMAIN notfound :
                        /\ notfound[i].name = n
                        /\ \A j \in DOMAIN notfound : notfound[j].name = n => j <= i
        IN notfound[last]]

\* extensions.notfound after an in-place sort (extensions.notfound.sort(...))
NotfoundAfterSort_InPlace(notfound) == sortBy(notfound)

\* extensions.notfound after sortBy([...extensions.notfound], ...): the spread
\* makes a copy, and sortBy returns a new array, so the list is as before
NotfoundAfterSort(notfound) == notfound

\* getExtensionThatNotPresentOnOpenVSX after Promise.allSettled
Classify ==
    /\ pc = "enrich"
    /\ \A i \in DOMAIN branches : branches[i] \in {"fulfilled", "rejected"}
    /\ LET notfound == sortBy(extensions.notfound)
           deprecatedExtensions == DeprecatedExtensions(extensions.all)
           dontMeetConditions == DontMeetConditions(extensions.all)
       IN result' =
              [all |-> MapByName(notfound),
               notFoundWithlicense |->
                   NotFoundWithlicense(notfound, deprecatedExtensions, dontMeetConditions),
               notFoundWithoutlicense |->
                   NotFoundWithoutlicense(notfound, deprecatedExtensions, dontMeetConditions),
               deprecatedExtensions |-> deprecatedExtensions,
               dontMeetConditions |-> dontMeetConditions]
    /\ extensions' = [extensions EXCEPT
                         !.notfound = NotfoundAfterSort(extensions.notfound)]
    /\ pc' = "report"
    /\ UNCHANGED << argv, repoPackageJson, file, tables, exitCode, output,
                    openVsxExtensionList, lookups, branches,
                    extensionsToAdd, added, hooks, writes >>

-----------------------------------------------------------------------------
(* The action after classification: report, decide, add *)

\* Array.prototype.findIndex(itm => itm.name === name), 1-based; 0 when absent
FindIndex(s, name) ==
    IF \E i \in DOMAIN s : s[i].name = name
    THEN CHOOSE i \in DOMAIN s :
             /\ s[i].name = name
             /\ \A j \in DOMAIN s : s[j].name = name => i <= j
    ELSE 0

\* Array.prototype.splice(idx, 1): what is left
RemoveAt(s, idx) ==
    IF idx = 0 THEN s
    ELSE SubSeq(s, 1, idx - 1) \o SubSeq(s, idx + 1, Len(s))

\* a license value in a condition: null and '' are falsy
Truthy(license) == license # Null /\ license # ""

\* const allConditionsAreMet = !notFoundWithlicense.length && ...
AllConditionsAreMet(notFoundWithlicense, notFoundWithoutlicense, deprecatedExtensions, dontMeetConditions) ==
    /\ Len(notFoundWithlicense) = 0
    /\ Len(notFoundWithoutlicense) = 0
    /\ Len(deprecatedExtensions) = 0
    /\ Len(dontMeetConditions) = 0

\* if (allConditionsAreMet || program.itself || program.addExtensionsWithlicense)
MergeGate(allConditionsAreMet, given) ==
    \/ allConditionsAreMet
    \/ ProgramItself(given)
    \/ ProgramAddExtensionsWithlicense(given)

\* the action from the classification result to the call of addExtensions
Report ==
    /\ pc = "report"
    /\ LET idxWith == FindIndex(result.notFoundWithlicense, extensionPackName)
           idxWithout == FindIndex(result.notFoundWithoutlicense, extensionPackName)
           hasInfo == idxWith # 0 \/ idxWithout # 0
           info == IF idxWithout # 0 THEN result.notFoundWithoutlicense[idxWithout]
                   ELSE IF idxWith # 0 THEN result.notFoundWithlicense[idxWith]
                   ELSE addLinks(<< extensionPackName >>)[1]
           notFoundWithlicense == RemoveAt(result.notFoundWithlicense, idxWith)
           notFoundWithoutlicense == RemoveAt(result.notFoundWithoutlicense, idxWithout)
           allConditionsAreMet ==
               AllConditionsAreMet(notFoundWithlicense, notFoundWithoutlicense,
                                   result.deprecatedExtensions, result.dontMeetConditions)
           printed ==
               output
               \cup (IF Len(result.dontMeetConditions) > 0
                     THEN {"Some of extensions are not open source"} ELSE {})
               \cup (IF Len(result.deprecatedExtensions) > 0
                     THEN {"Some of extensions are deprecated"} ELSE {})
               \cup (IF Len(notFoundWithlicense) > 0
                     THEN {"extensions with license"} ELSE {})
               \cup (IF Len(notFoundWithoutlicense) > 0
                     THEN {"extensions with not identified license"} ELSE {})
               \cup (IF allConditionsAreMet
                     THEN {"All extensions are present in Open VSX marketplace."}
                     ELSE {})
           itself == ProgramItself(argv) /\ hasInfo
           toAdd == (IF itself THEN << info >> ELSE << >>)
                    \o (IF MergeGate(allConditionsAreMet, argv)
                        THEN SelectSeq(notFoundWithlicense,
                                       LAMBDA itm : itm.name \notin openVsxExtensionList)
                        ELSE << >>)
       IN /\ result' = [result EXCEPT
                           !.notFoundWithlicense = notFoundWithlicense,
                           !.notFoundWithoutlicense = notFoundWithoutlicense]
          /\ IF itself /\ ~Truthy(info.license)
             THEN /\ output' = printed \cup {"Extension pack does not contain license"}
                  /\ exitCode' = 1
                  /\ pc' = "done"
                  /\ UNCHANGED extensionsToAdd
             ELSE /\ extensionsToAdd' = toAdd
                  /\ UNCHANGED exitCode
                  /\ IF MergeGate(allConditionsAreMet, argv) /\ Len(toAdd) > 0
                     THEN /\ output' = printed \cup {"Adding extensions with defined license"}
                          /\ pc' = "addExtensions"
                     ELSE /\ output' = printed
                          /\ pc' = "done"
    /\ UNCHANGED << argv, repoPackageJson, file, tables, openVsxExtensionList,
                    lookups, extensions, branches, added, hooks, writes >>

\* addNewExtension(resp.extension, resp.package, extensions): the downstream
\* append operation
addNewExtension(extension, list) == Append(list, extension)

\* addExtensions up to its loop: nothing to do for an empty list, else the
\* file's entries are read
AddExtensionsStart ==
    /\ pc = "addExtensions"
    /\ IF Len(extensionsToAdd) = 0
       THEN /\ pc' = "done"
            /\ UNCHANGED added
       ELSE /\ pc' = "addLoop"
            /\ added' = [extensions |-> file.extensions, pushed |-> << >>]
    /\ UNCHANGED << argv, repoPackageJson, file, tables, exitCode, output,
                    openVsxExtensionList, lookups, extensions, branches, result,
                    extensionsToAdd, hooks, writes >>

\* fetchExtInfoFromClonedRepo(repository, {}).extension: the extension whose
\* repository was cloned
fetchExtInfoFromClonedRepo(repository) == ToStringWithoutGitSuffix(repository)

\* one turn of the loop that writes the file as soon as the extension is
\* appended
AddExtensionsNext_WriteThrough ==
    /\ pc = "addLoop"
    /\ Len(added.pushed) < Len(extensionsToAdd)
    /\ LET repository == extensionsToAdd[Len(added.pushed) + 1].repoUrl
       IN \E cloned \in BOOLEAN :
            IF repository = Null \/ ~cloned
            THEN /\ Catch("fetchExtInfoFromClonedRepo failed")
                 /\ UNCHANGED << added, file, writes >>
            ELSE /\ LET extension == fetchExtInfoFromClonedRepo(repository)
                    IN /\ added' = [extensions |-> addNewExtension(extension, added.extensions),
                                    pushed |-> Append(added.pushed, extension)]
                       /\ file' = [exists |-> TRUE,
                                   extensions |-> addNewExtension(extension, added.extensions)]
                 /\ writes' = Append(writes, "writeToExtensionsFile")
                 /\ UNCHANGED << pc, output, exitCode >>
    /\ UNCHANGED << argv, repoPackageJson, tables, openVsxExtensionList,
                    lookups, extensions, branches, result, extensionsToAdd,
                    hooks >>

\* one turn of `for (const repository of repos)`: the repository is cloned
\* and resolved to an extension, which is appended to the list in memory
AddExtensionsNext ==
    /\ pc = "addLoop"
    /\ Len(added.pushed) < Len(extensionsToAdd)
    /\ LET repository == extensionsToAdd[Len(added.pushed) + 1].repoUrl
       IN \E cloned \in BOOLEAN :
            IF repository = Null \/ ~cloned
            THEN /\ Catch("fetchExtInfoFromClonedRepo failed")
                 /\ UNCHANGED added
            ELSE /\ LET extension == fetchExtInfoFromClonedRepo(repository)
                    IN added' = [extensions |-> addNewExtension(extension, added.extensions),
                                 pushed |-> Append(added.pushed, extension)]
                 /\ UNCHANGED << pc, output, exitCode >>
    /\ UNCHANGED << argv, repoPackageJson, file, tables, openVsxExtensionList,
                    lookups, extensions, branches, result, extensionsToAdd,
                    hooks, writes >>

\* extensionsToAdd.forEach(extension => onDidAddExtension(extension)) that
\* notifies nobody
NotifyAdded_None(called, pushed) == called

\* extensionsToAdd.forEach(extension => onDidAddExtension(extension)): one
\* call per pushed extension, in the order of the pushes
NotifyAdded(called, pushed) == called \o pushed

\* after the loop: the hooks, then the file is written
AddExtensionsFinish ==
    /\ pc = "addLoop"
    /\ Len(added.pushed) = Len(extensionsToAdd)
    /\ hooks' = NotifyAdded(hooks, added.pushed)
    /\ file' = [exists |-> TRUE, extensions |-> added.extensions]
    /\ writes' = Append(writes, "writeToExtensionsFile")
    /\ pc' = "done"
    /\ UNCHANGED << argv, repoPackageJson, tables, exitCode, output,
                    openVsxExtensionList, lookups, extensions, branches, result,
                    extensionsToAdd, added >>

-----------------------------------------------------------------------------

Next ==
    \/ ResolvePack
    \/ SelfLookup
    \/ IsExtensionPack
    \/ ensureExtensionsFileAndReturnMap
    \/ CheckStart
    \/ \E i \in DOMAIN lookups : Lookup(i)
    \/ CheckReturn
    \/ \E i \in DOMAIN branches : EnrichRepo(i)
    \/ \E i \in DOMAIN branches : EnrichLicense(i)
    \/ Classify
    \/ Report
    \/ AddExtensionsStart
    \/ AddExtensionsNext
    \/ AddExtensionsFinish

Spec == Init /\ [][Next]_vars

\* the command run with fixtures for the classification tables
SpecTables == InitTables /\ [][Next]_vars

\* getExtensionThatNotPresentOnOpenVSX from Promise.allSettled on, and the
\* action's use of its result
NextEnrich ==
    \/ \E i \in DOMAIN branches : EnrichRepo(i)
    \/ \E i \in DOMAIN branches : EnrichLicense(i)
    \/ Classify
    \/ Report

SpecEnrich == InitEnrich /\ [][NextEnrich]_vars

-----------------------------------------------------------------------------
(* Properties *)

Names(records) == [i \in DOMAIN records |-> records[i].name]

\* the five buckets of a classified pack, as lists of identifiers
Buckets ==
    << Names(extensions.found),
       result.deprecatedExtensions,
       result.dontMeetConditions,
       Names(result.notFoundWithlicense),
       Names(result.notFoundWithoutlicense) >>

\* C1: after the classification every member of the pack is in exactly one
\* of the buckets found, deprecated, ineligible, licensed, unlicensed.
C1_ExactlyOneBucket ==
    pc = "report" =>
        \A id \in Range(extensions.all) :
            Cardinality({b \in DOMAIN Buckets : Includes(Buckets[b], id)}) = 1

\* C2: the buckets together hold exactly the members of the pack, and no
\* identifier is held twice, also when the manifest repeats an identifier.
C2_UnionIsMemberList ==
    pc = "report" =>
        LET together == Buckets[1] \o Buckets[2] \o Buckets[3]
                        \o Buckets[4] \o Buckets[5]
        IN /\ Range(together) = Range(extensions.all)
           /\ \A i, j \in DOMAIN together : together[i] = together[j] => i = j

\* C3: a member that is a key of the deprecation table is reported as
\* deprecated and is in neither the licensed nor the unlicensed bucket,
\* whatever license its enrichment found.
C3_DeprecatedOnly ==
    /\ \A i \in DOMAIN result.notFoundWithlicense :
           result.notFoundWithlicense[i].name \notin tables.deprecated
    /\ \A i \in DOMAIN result.notFoundWithoutlicense :
           result.notFoundWithoutlicense[i].name \notin tables.deprecated
    /\ pc = "report" =>
           \A id \in Range(extensions.all) \cap tables.deprecated :
               Includes(result.deprecatedExtensions, id)

\* a deprecated member absent from Open VSX whose repository has an SPDX
\* license has been classified
C3_Witness ==
    /\ pc = "report"
    /\ \E i \in DOMAIN extensions.notfound :
           /\ extensions.notfound[i].name \in tables.deprecated
           /\ extensions.notfound[i].license \in SpdxLicenseIds
           /\ Includes(result.deprecatedExtensions, extensions.notfound[i].name)

C5_AllConditionsMet ==
    [][pc = "report" =>
          (("All extensions are present in Open VSX marketplace." \in output')
             <=> (/\ Len(result'.deprecatedExtensions) = 0
                  /\ Len(result'.dontMeetConditions) = 0
                  /\ Len(result'.notFoundWithoutlicense) = 0))]_vars

\* the licensed candidates the file does not hold yet
Eligible(records) ==
    SelectSeq(records, LAMBDA itm : itm.name \notin openVsxExtensionList)

\* C6: without flags, a pack with no deprecated, ineligible or unlicensed
\* member has its licensed, not yet registered candidates handed to
\* addExtensions.
C6_DefaultMerge ==
    [][(/\ pc = "report"
        /\ argv = {}
        /\ Len(result'.deprecatedExtensions) = 0
        /\ Len(result'.dontMeetConditions) = 0
        /\ Len(result'.notFoundWithoutlicense) = 0
        /\ Len(Eligible(result'.notFoundWithlicense)) > 0)
          => /\ pc' = "addExtensions"
             /\ Range(Eligible(result'.notFoundWithlicense)) \subseteq Range(extensionsToAdd')]_vars

\* C7: with --add-extensions-with-license (and no other flag) the licensed,
\* not yet registered candidates are handed to addExtensions, whatever the
\* other buckets hold.
C7_FlagBypassesGate ==
    [][(/\ pc = "report"
        /\ argv = {"--add-extensions-with-license"}
        /\ Len(Eligible(result'.notFoundWithlicense)) > 0)
          => /\ pc' = "addExtensions"
             /\ Range(Eligible(result'.notFoundWithlicense)) \subseteq Range(extensionsToAdd')]_vars

\* the run has found an SPDX license for the pack itself
PackHasLicense ==
    \E i \in DOMAIN extensions.notfound :
        /\ extensions.notfound[i].name = extensionPackName
        /\ extensions.notfound[i].license \in SpdxLicenseIds

\* C8: with --itself, when the members of the pack are all eligible and the
\* run has found no SPDX license for the pack itself, the command reports
\* the conflict and exits with status 1, and nothing is handed to
\* addExtensions.  (The pack is absent from Open VSX whenever the action
\* gets here: the command exits earlier otherwise.)
C8_ItselfWithoutLicense ==
    [][(/\ pc = "report"
        /\ "--itself" \in argv
        /\ Len(result.deprecatedExtensions) = 0
        /\ Len(result.dontMeetConditions) = 0
        /\ \A i \in DOMAIN result.notFoundWithoutlicense :
               result.notFoundWithoutlicense[i].name = extensionPackName
        /\ ~PackHasLicense)
          => /\ pc' = "done"
             /\ exitCode' = 1
             /\ "Extension pack does not contain license" \in output'
             /\ writes' = writes]_vars

\* C9: the pack's identifier is looked up live with the members missing
\* from the snapshot, and when no lookup finds it, it is among the notfound
\* records that checkExtensionsInOpenVsxFromVSCodeMarketplace returns.
C9_PackAmongCandidates ==
    [][(pc = "lookups" /\ pc' = "enrich")
          => /\ \E i \in DOMAIN lookups : lookups[i].id = extensionPackName
             /\ (\A i \in DOMAIN lookups :
                      lookups[i].id = extensionPackName
                          => lookups[i].ext.kind = "notFound")
                    => Includes(Names(extensions'.notfound), extensionPackName)]_vars

\* a live lookup that did not get the extension
LookupFailed(i) == lookups[i].response # "extension"

\* C10: a live lookup that fails is a 'not found': the run leaves the
\* lookups only by building the found / notfound lists, never by an error,
\* and a member whose lookups all failed is among the notfound records,
\* its enrichment branch started.
C10_LookupFailureIsNotFound ==
    [][pc = "lookups" =>
          /\ pc' \in {"lookups", "enrich"}
          /\ \A i \in DOMAIN lookups' :
                 (lookups'[i].response \in {"errorBody", "transportFailure"})
                     => lookups'[i].ext.kind = "notFound"
          /\ pc' = "enrich" =>
                 \A i \in DOMAIN lookups :
                     (/\ LookupFailed(i)
                      /\ Includes(extensions.all, lookups[i].id)
                      /\ \A j \in DOMAIN lookups :
                             lookups[j].id = lookups[i].id => LookupFailed(j))
                         => \E k \in DOMAIN extensions'.notfound :
                                /\ extensions'.notfound[k].name = lookups[i].id
                                /\ branches'[k] = "marketplace"]_vars

\* all live lookups have settled: a member's lookup failed in transport,
\* another lookup found its extension
C10_Witness ==
    /\ pc = "lookups"
    /\ \A i \in DOMAIN lookups : lookups[i].ext.kind # "pending"
    /\ \E i, j \in DOMAIN lookups :
           /\ lookups[i].response = "transportFailure"
           /\ Includes(extensions.all, lookups[i].id)
           /\ lookups[j].ext.kind = "extension"

-----------------------------------------------------------------------------
(* Enrichment failures *)

\* the record of branch i is excluded from the license buckets
Excluded(i) ==
    \/ extensions.notfound[i].name \in tables.deprecated
    \/ Includes(tables.ineligible, extensions.notfound[i].name)

\* a rejected enrichment branch has not aborted the run: the classification
\* has been done, over all the notfound records
ClassifiedAfterRejection ==
    (pc # "enrich" /\ \E i \in DOMAIN branches : branches[i] = "rejected")
        => DOMAIN result.all = Range(Names(extensions.notfound))

\* C11 as stated: a failure of one candidate's enrichment does not abort the
\* batch, the candidate keeps license = null and licenseUrl = null, and it
\* is reported in the unlicensed bucket.
C11_FailedIsUnlicensed ==
    /\ ClassifiedAfterRejection
    /\ pc = "report" =>
           \A i \in DOMAIN branches :
               branches[i] = "rejected"
                   => /\ extensions.notfound[i].license = Null
                      /\ extensions.notfound[i].licenseUrl = Null
                      /\ Includes(result.notFoundWithoutlicense, extensions.notfound[i])

\* C11 amended: a failure of one candidate's enrichment does not abort the
\* batch, the candidate keeps license = null and licenseUrl = null, and it
\* is reported in the unlicensed bucket unless it is deprecated or
\* ineligible; every other candidate is classified by the license its own
\* branch found.
C11_FailedIsUnlicensedUnlessExcluded ==
    /\ ClassifiedAfterRejection
    /\ pc = "report" =>
           \A i \in DOMAIN branches :
               /\ branches[i] \in {"fulfilled", "rejected"}
               /\ branches[i] = "rejected"
                   => /\ extensions.notfound[i].license = Null
                      /\ extensions.notfound[i].licenseUrl = Null
                      /\ ~Excluded(i)
                            => Includes(result.notFoundWithoutlicense,
                                        extensions.notfound[i])
               /\ (branches[i] = "fulfilled" /\ ~Excluded(i)
                      /\ extensions.notfound[i].license \in SpdxLicenseIds)
                   => Includes(result.notFoundWithlicense, extensions.notfound[i])

\* one member's enrichment failed (at the marketplace or at the license) and
\* it is unlicensed, another member's succeeded and it is licensed
C11_Witness ==
    /\ pc = "report"
    /\ \E i, j \in DOMAIN branches :
           /\ branches[i] = "rejected"
           /\ ~Excluded(i)
           /\ Includes(result.notFoundWithoutlicense, extensions.notfound[i])
           /\ branches[j] = "fulfilled"
           /\ Includes(result.notFoundWithlicense, extensions.notfound[j])

-----------------------------------------------------------------------------
(* Fatal errors *)

\* the messages of the errors the action's catch block prints
FatalMessages ==
    {"Extension should not be empty",
     "assetUrl should be valid url to ext manifest",
     "repoUrl should be valid url",
     "Extension (name) not found",
     "Extension pack not found",
     "Not Found", "Unexpected token", "FetchError",
     "fetchExtInfoFromClonedRepo failed",
     "Cannot read property 'url'"}

\* C12: when a fatal error has ended the command (its message has been
\* printed), the exit status is not zero.
C12_FatalErrorExitsNonZero ==
    (pc = "done" /\ output \cap FatalMessages # {}) => exitCode # 0

-----------------------------------------------------------------------------
(* Identifiers that are not packs *)

\* the messages of the errors of resolving the identifier to a repository
ResolutionFailures ==
    {"Extension should not be empty",
     "assetUrl should be valid url to ext manifest",
     "repoUrl should be valid url",
     "Cannot read property 'url'",
     "Extension (name) not found"}

\* the identifier's repository answers with a package.json (or with no
\* content) whose member list is empty
NotAPack ==
    \/ repoPackageJson.kind \in {"noContent", "notBase64"}
    \/ /\ repoPackageJson.kind = "content"
       /\ extractExtensionPackFromPackageJson(repoPackageJson.pkg) = << >>

UnsupportedMessage == "Adding extension by name is not supported!"

\* C13 as stated: whenever the command ends for an identifier that resolves
\* to an extension with an empty member list, it has printed the
\* unsupported-operation message, has not written the file and exits with
\* status 0.
C13_NonPackUnsupported ==
    [][(/\ NotAPack
        /\ pc # "done" /\ pc' = "done"
        /\ output' \cap ResolutionFailures = {})
          => /\ UnsupportedMessage \in output'
             /\ writes' = << >>
             /\ file' = file
             /\ exitCode' = 0]_vars

\* C13 amended: for an identifier that Open VSX does not hold yet and that
\* resolves to an extension with an empty member list, the command prints
\* the unsupported-operation message, does not write the file and exits with
\* status 0.
C13_NonPackNotPublishedUnsupported ==
    [][(/\ NotAPack
        /\ pc = "isExtensionPack"
        /\ output' \cap ResolutionFailures = {})
          => /\ pc' = "done"
             /\ UnsupportedMessage \in output'
             /\ writes' = << >>
             /\ file' = file
             /\ exitCode' = 0]_vars

\* the command has ended with the unsupported-operation message for an
\* identifier whose package.json has no content
C13_Witness ==
    /\ pc = "done"
    /\ repoPackageJson.kind = "noContent"
    /\ UnsupportedMessage \in output
    /\ writes = << >>
    /\ exitCode = 0

-----------------------------------------------------------------------------
(* License bucketing *)

\* C14: a candidate that is neither deprecated nor ineligible is in the
\* licensed bucket exactly when its license is an SPDX license id, compared
\* exactly, and in the unlicensed bucket otherwise: 'MIT' is licensed;
\* 'mit', 'NOASSERTION', '' and null are unlicensed.
C14_ExactLicenseMatch ==
    pc = "report" =>
        \A i \in DOMAIN extensions.notfound :
            LET itm == extensions.notfound[i]
            IN ~Excluded(i) =>
                 /\ Includes(result.notFoundWithlicense, itm)
                        <=> itm.license \in SpdxLicenseIds
                 /\ Includes(result.notFoundWithoutlicense, itm)
                        <=> itm.license \notin SpdxLicenseIds
                 /\ itm.license = "MIT"
                        => Includes(result.notFoundWithlicense, itm)
                 /\ itm.license \in {"mit", "NOASSERTION", "", Null}
                        => /\ Includes(result.notFoundWithoutlicense, itm)
                           /\ ~Includes(result.notFoundWithlicense, itm)

\* a candidate licensed 'mit' is unlicensed, another licensed 'MIT' is
\* licensed
C14_Witness ==
    /\ pc = "report"
    /\ \E i, j \in DOMAIN extensions.notfound :
           /\ extensions.notfound[i].license = "mit"
           /\ Includes(result.notFoundWithoutlicense, extensions.notfound[i])
           /\ extensions.notfound[j].license = "MIT"
           /\ Includes(result.notFoundWithlicense, extensions.notfound[j])

-----------------------------------------------------------------------------
(* Order of the licensed and the unlicensed bucket *)

\* bucket is non-decreasing by last-updated timestamp, over its records
\* that have a timestamp
NonDecreasing(bucket) ==
    \A i, j \in DOMAIN bucket :
        (/\ i < j
         /\ DateOf(bucket[i].lastUpdated).valid
         /\ DateOf(bucket[j].lastUpdated).valid)
            => DateOf(bucket[i].lastUpdated).time <= DateOf(bucket[j].lastUpdated).time

\* the records of bucket with one timestamp are in the order they have in
\* the notfound list
KeepsInputOrder(bucket) ==
    \A t \in Timestamps :
        SelectSeq(bucket, LAMBDA itm : itm.lastUpdated = t)
            = SelectSeq(extensions.notfound,
                        LAMBDA itm : itm.lastUpdated = t /\ Includes(bucket, itm))

\* C15: the licensed and the unlicensed bucket are each non-decreasing by
\* last-updated timestamp, and candidates with identical timestamps keep
\* their relative input order.
C15_BucketsSortedStable ==
    pc = "report" =>
        /\ NonDecreasing(result.notFoundWithlicense)
        /\ NonDecreasing(result.notFoundWithoutlicense)
        /\ KeepsInputOrder(result.notFoundWithlicense)
        /\ KeepsInputOrder(result.notFoundWithoutlicense)

\* no record with a timestamp stands before a record without one
InvalidFirst(bucket) ==
    \A i, j \in DOMAIN bucket :
        i < j => ~(/\ DateOf(bucket[i].lastUpdated).valid
                   /\ ~DateOf(bucket[j].lastUpdated).valid)

\* C16: in the licensed and in the unlicensed bucket a candidate whose
\* last-updated timestamp is empty or unparsable precedes every candidate
\* that has a valid timestamp.
C16_InvalidSortsEarliest ==
    pc = "report" =>
        /\ InvalidFirst(result.notFoundWithlicense)
        /\ InvalidFirst(result.notFoundWithoutlicense)

-----------------------------------------------------------------------------
(* Classification run again *)

\* the buckets a run of the classification step returns for the member list
\* and the enriched records of the current state
Classification ==
    LET notfound == sortBy(extensions.notfound)
        deprecatedExtensions == DeprecatedExtensions(extensions.all)
        dontMeetConditions == DontMeetConditions(extensions.all)
    IN [notFoundWithlicense |->
            NotFoundWithlicense(notfound, deprecatedExtensions, dontMeetConditions),
        notFoundWithoutlicense |->
            NotFoundWithoutlicense(notfound, deprecatedExtensions, dontMeetConditions),
        deprecatedExtensions |-> deprecatedExtensions,
        dontMeetConditions |-> dontMeetConditions]

\* the four buckets of a result
BucketsOf(r) ==
    [notFoundWithlicense |-> r.notFoundWithlicense,
     notFoundWithoutlicense |-> r.notFoundWithoutlicense,
     deprecatedExtensions |-> r.deprecatedExtensions,
     dontMeetConditions |-> r.dontMeetConditions]

-----------------------------------------------------------------------------
(* Entries appended to the extensions file *)

\* the identifiers of a list of entries, in canonical (lower-cased) form
Canonical(entries) == [i \in DOMAIN entries |-> ToLowerCase(entries[i])]

\* C18: when the command writes the extensions file, no entry it appended
\* has the identifier (compared without regard to case) of another entry of
\* the file, whether that entry was in the file before or was appended by
\* the same run.
C18_NoEntryAppendedTwice ==
    [][(pc = "addLoop" /\ pc' = "done" /\ file' # file)
          => \A i, j \in DOMAIN file'.extensions :
                 (i > Len(file.extensions) /\ j # i)
                     => Canonical(file'.extensions)[i] # Canonical(file'.extensions)[j]]_vars

-----------------------------------------------------------------------------
(* Missing or unparsable package.json *)

\* C19: when the repository has no package.json, or its content is absent,
\* not base64 or not JSON, the resolver raises no error: the member list is
\* empty and the identifier is treated as not a pack.
C19_UnparsableIsNotAPack ==
    [][(/\ pc = "isExtensionPack"
        /\ repoPackageJson.kind \in {"httpError", "noContent", "notBase64", "badJson"}
        /\ output' \cap ResolutionFailures = {})
          => /\ pc' = "done"
             /\ UnsupportedMessage \in output'
             /\ output' \cap FatalMessages = {}]_vars

-----------------------------------------------------------------------------
(* The member list of a package.json *)

\* the field of the pack's package.json the member list is taken from
MemberField ==
    IF "extensionPack" \in DOMAIN repoPackageJson.pkg
    THEN "extensionPack" ELSE "extensionDependencies"

\* the identifiers of that field as the package.json spells them
DeclaredMembers ==
    IF MemberField \in DOMAIN repoPackageJson.pkg
    THEN repoPackageJson.pkg[MemberField] ELSE << >>

\* C20: the member list is the extensionPack field when the package.json
\* has it, the extensionDependencies field only when it has no
\* extensionPack; the identifiers are lower-cased and in the order of the
\* field.  (A package.json whose chosen field is empty is not a pack.)
C20_MemberListFromManifest ==
    [][(repoPackageJson.kind = "content")
          => /\ (pc = "checkExtensions" /\ pc' = "lookups")
                    => /\ Len(extensions'.all) = Len(DeclaredMembers)
                       /\ \A i \in DOMAIN DeclaredMembers :
                              /\ extensions'.all[i] = ToLowerCase(DeclaredMembers[i])
                              /\ extensions'.all[i] \notin {"X.One", "A.Pack"}
             /\ (/\ pc = "isExtensionPack"
                 /\ output' \cap ResolutionFailures = {})
                    => (pc' = "done" <=> DeclaredMembers = << >>)]_vars

\* the member list of a package.json that has both fields, its extensionPack
\* spelling an identifier with capitals
C20_Witness ==
    /\ pc = "lookups"
    /\ repoPackageJson.kind = "content"
    /\ DOMAIN repoPackageJson.pkg = {"extensionPack", "extensionDependencies"}
    /\ repoPackageJson.pkg["extensionPack"] = << "y.two", "X.One" >>
    /\ extensions.all = << "y.two", "x.one" >>

-----------------------------------------------------------------------------
(* The repository of a manifest *)

\* C21: the repoUrl the resolver returns never ends in '.git', whether the
\* manifest's repository field is a URL string or an object {url}: no
\* enriched record holds a repoUrl that ends in '.git'.
C21_RepoUrlWithoutGitSuffix ==
    \A i \in DOMAIN extensions.notfound :
        extensions.notfound[i].repoUrl # Null
            => ~EndsWithGit(extensions.notfound[i].repoUrl)

\* the errors the resolver declares for an extension it cannot resolve to a
\* repository
ResolverErrors ==
    {"Extension should not be empty",
     "assetUrl should be valid url to ext manifest",
     "repoUrl should be valid url"}

\* C22: the resolution of the pack's repository either succeeds or fails
\* with one of the resolver's own errors; a repository field that yields no
\* usable URL (missing, null, object without url, empty url) fails with
\* 'repoUrl should be valid url'.
C22_UnusableRepositoryIsMalformed ==
    [][pc = "start" =>
          \/ pc' = "selfLookup" /\ output' = output
          \/ pc' = "done" /\ output' \cap ResolverErrors # {}]_vars

-----------------------------------------------------------------------------
(* The snapshot file *)

\* C23: ensureExtensionsFileAndReturnMap downloads and writes the listing
\* only when the file does not exist; a file that exists is not downloaded
\* again and is not overwritten, by this step or by any later step of the
\* run (so the next run finds it as it was); the membership check (the live
\* lookups included) does not write the file.
C23_SnapshotCreatedOnce ==
    [][/\ pc = "ensureExtensionsFile" =>
            /\ (~file.exists /\ pc' = "checkExtensions")
                  => /\ file' = [exists |-> TRUE, extensions |-> RegistryListing]
                     /\ writes' = Append(writes, "outputJSONSync")
            /\ pc' = "checkExtensions"
                  => openVsxExtensionList' = Range(Canonical(file'.extensions))
       /\ pc \in {"checkExtensions", "lookups"} => (file' = file /\ writes' = writes)
       /\ file.exists => (file' = file /\ writes' = writes)]_vars

-----------------------------------------------------------------------------
(* The post-add notification *)

\* the hook calls are calls for appended candidates, made after the append
HooksFollowAppends ==
    /\ Len(hooks) <= Len(added.pushed)
    /\ SubSeq(added.pushed, 1, Len(hooks)) = hooks

\* C24: every candidate that addExtensions has appended to the list gets one
\* call of onDidAddExtension, after its append, by the time the command is
\* over; no call is made for a candidate that was not appended.
C24_OneHookPerAppend ==
    /\ HooksFollowAppends
    /\ pc = "done" => hooks = added.pushed

AddFailed == "fetchExtInfoFromClonedRepo failed" \in output

\* C24 (amended): when every candidate of the list was resolved and appended,
\* each append gets one call of onDidAddExtension, after the loop, in the
\* order of the appends; when one candidate fails no call is made at all,
\* for the candidates appended before the failure either; no call is made
\* for a candidate that was not appended.
C24_OneHookPerAppendWhenAllAppended ==
    /\ HooksFollowAppends
    /\ (pc = "done" /\ ~AddFailed) => hooks = added.pushed
    /\ AddFailed => hooks = << >>
    /\ hooks # << >> => Len(added.pushed) = Len(extensionsToAdd)

\* two candidates were appended and each was notified once
C24_Witness ==
    /\ pc = "done"
    /\ Len(added.pushed) = 2
    /\ hooks = added.pushed

-----------------------------------------------------------------------------
(* The two joins *)

LookupsCompleted == \A i \in DOMAIN lookups : lookups[i].ext.kind \in {"extension", "notFound"}

BranchesSettled == \A i \in DOMAIN branches : branches[i] \in {"fulfilled", "rejected"}

\* C25: the lookup stage is left only when every live lookup has completed,
\* and then enrichment starts; the enrichment stage is left only when every
\* branch is fulfilled or rejected, and then the sort and the buckets are
\* computed; a failed lookup or a rejected branch takes neither stage to its
\* end while another one is still running.
C25_AllCompleteJoins ==
    [][/\ (pc = "lookups" /\ pc' # "lookups") => (LookupsCompleted /\ pc' = "enrich")
       /\ (pc = "enrich" /\ pc' # "enrich") => (BranchesSettled /\ pc' = "report")
       /\ (pc = "enrich" /\ result' # result) => BranchesSettled]_vars

\* the buckets were computed after one branch was rejected and another was
\* fulfilled
C25_Witness ==
    /\ pc = "report"
    /\ \E i, j \in DOMAIN branches :
          branches[i] = "rejected" /\ branches[j] = "fulfilled"

-----------------------------------------------------------------------------
(* What the concurrent branches write *)

\* the records a step of the branch of record itm can leave: the record as it
\* was (the branch was rejected), with the repository and the timestamp of a
\* marketplace answer, or with the license of a license answer
BranchWrites(itm) ==
    {itm}
    \cup {[itm EXCEPT !.repoUrl = getRepoByVsixManifest(itm.name, info).repoUrl,
                      !.lastUpdated = info.lastUpdated] : info \in MarketplaceAnswers}
    \cup {[itm EXCEPT !.licenseUrl = getlicenseSpdxIdByRepoName(answer).html_url,
                      !.license = getlicenseSpdxIdByRepoName(answer).spdx_id] :
             answer \in LicenseAnswers}

\* everything the lookups and the branches share, their own slots apart
SharedState ==
    << extensions.all, extensions.found, tables, openVsxExtensionList, result,
       file, extensionsToAdd >>

\* C26: a live lookup writes its own slot only, and a step of an enrichment
\* branch writes its own record only, with values that depend on that record
\* and on the answer it got; the records keep the order of the member list
\* whatever the order of completion; and the buckets are computed from the
\* member list, the records and the tables alone. So the buckets, elements
\* and order, are the same for every interleaving of the same answers.
C26_BranchesWriteOwnRecord ==
    [][/\ (pc = "lookups" /\ pc' = "lookups")
            => /\ \E i \in DOMAIN lookups :
                     /\ DOMAIN lookups' = DOMAIN lookups
                     /\ \A j \in DOMAIN lookups \ {i} : lookups'[j] = lookups[j]
                     /\ lookups'[i].id = lookups[i].id
               /\ extensions' = extensions
               /\ SharedState' = SharedState
       /\ (pc = "lookups" /\ pc' = "enrich")
            => LET present(id) ==
                       \/ id \in openVsxExtensionList
                       \/ \E i \in DOMAIN lookups :
                             /\ lookups[i].ext.kind = "extension"
                             /\ extName(lookups[i].ext.id) = id
               IN extensions'.notfound =
                      addLinks(SelectSeq(extensions.all, LAMBDA id : ~present(id)))
       /\ (pc = "enrich" /\ pc' = "enrich")
            => /\ \E i \in DOMAIN branches :
                     /\ DOMAIN extensions'.notfound = DOMAIN extensions.notfound
                     /\ \A j \in DOMAIN branches \ {i} :
                           /\ extensions'.notfound[j] = extensions.notfound[j]
                           /\ branches'[j] = branches[j]
                     /\ extensions'.notfound[i] \in BranchWrites(extensions.notfound[i])
               /\ SharedState' = SharedState
       /\ (pc = "enrich" /\ pc' = "report")
            => BucketsOf(result') = Classification]_vars

\* the second branch has completed while the first is still waiting for its
\* first answer
C26_Witness ==
    /\ pc = "enrich"
    /\ Len(branches) = 2
    /\ branches[1] = "marketplace"
    /\ branches[2] = "fulfilled"
    /\ extensions.notfound[2].license = "MIT"

-----------------------------------------------------------------------------
(* The flags and the gate *)

\* the classification holds a member that is deprecated, ineligible or
\* without an accepted license (the pack's own record has been spliced out)
SomeMemberNotEligible ==
    \/ Len(result.deprecatedExtensions) > 0
    \/ Len(result.dontMeetConditions) > 0
    \/ Len(result.notFoundWithoutlicense) > 0

\* C27: with --itself as the only flag and a member that is deprecated,
\* ineligible or unlicensed, the candidates handed to addExtensions, and the
\* entries it appends, are the pack's own identifier at most: no member.
C27_ItselfAddsNoMember ==
    (/\ argv = {"--itself"}
     /\ pc \in {"addExtensions", "addLoop", "done"}
     /\ SomeMemberNotEligible)
        => /\ \A i \in DOMAIN extensionsToAdd :
                 extensionsToAdd[i].name = extensionPackName
           /\ Len(added.pushed) <= 1

-----------------------------------------------------------------------------
(* addExtensions on its own: any list of candidates, any extensions file *)

\* candidates as the classification hands them over: a repository URL, or
\* none
AddCandidates ==
    UNION {{[addLinks(<< name >>)[1] EXCEPT !.repoUrl = repoUrl, !.license = "MIT"] :
               repoUrl \in {Null, name}} : name \in {"x.one", "y.two"}}

\* addExtensions(notAddedExtensions, extensionsFile) is entered: the file
\* exists, as ensureExtensionsFileAndReturnMap has left it
InitAdd ==
    /\ argv = {}
    /\ repoPackageJson = [kind |-> "noContent", pkg |-> [f \in {} |-> << >>]]
    /\ file \in {f \in FileInputs : f.exists}
    /\ tables = [deprecated |-> DOMAIN deprecatedExtensionsMap,
                 ineligible |-> extensionsDontMeetOpenVSXConditons]
    /\ pc = "addExtensions"
    /\ exitCode = 0
    /\ output = {}
    /\ openVsxExtensionList = Range(Canonical(file.extensions))
    /\ lookups = << >>
    /\ extensions = NoExtensions
    /\ branches = << >>
    /\ result = NoResult
    /\ extensionsToAdd \in SeqsUpTo(AddCandidates, MaxMembers)
    /\ added = [extensions |-> << >>, pushed |-> << >>]
    /\ hooks = << >>
    /\ writes = << >>

NextAdd ==
    \/ AddExtensionsStart
    \/ AddExtensionsNext
    \/ AddExtensionsFinish

SpecAdd == InitAdd /\ [][NextAdd]_vars

\* C28: while addExtensions runs its loop the file is not written and no hook
\* is fired; when resolving or appending a candidate fails, the function is
\* left with no call of writeToExtensionsFile, the file as it was and no hook
\* fired, whatever was appended before; the file is written, and the hooks
\* are fired, only when every candidate has been appended; with an empty list
\* the function returns without reading or writing the file.
C28_AddExtensionsAllOrNothing ==
    [][/\ (pc = "addExtensions" /\ Len(extensionsToAdd) = 0)
            => (pc' = "done" /\ added' = added /\ file' = file /\ writes' = writes
                /\ hooks' = hooks)
       /\ (pc = "addLoop" /\ pc' = "addLoop")
            => (file' = file /\ writes' = writes /\ hooks' = hooks)
       /\ (pc = "addLoop" /\ AddFailed')
            => (file' = file /\ writes' = << >> /\ hooks' = << >>)
       /\ (file' # file \/ writes' # writes \/ hooks' # hooks)
            => /\ pc = "addLoop" /\ pc' = "done" /\ ~AddFailed'
               /\ Len(added.pushed) = Len(extensionsToAdd)
               /\ writes' = Append(writes, "writeToExtensionsFile")
               /\ file'.extensions = added.extensions
               /\ hooks' = added.pushed]_vars

\* the second candidate failed after the first was appended: nothing written,
\* nobody notified
C28_Witness ==
    /\ pc = "done"
    /\ AddFailed
    /\ Len(added.pushed) = 1
    /\ Len(extensionsToAdd) = 2
    /\ writes = << >>
    /\ hooks = << >>

-----------------------------------------------------------------------------
(* The repository of a licensed candidate *)

\* C29: a record gets its license only after its repository was resolved and
\* its repoUrl written, so a record with a license, every candidate of the
\* licensed bucket and every candidate handed to addExtensions has a
\* repoUrl that is not null.
C29_LicensedHasRepoUrl ==
    /\ \A i \in DOMAIN extensions.notfound :
          extensions.notfound[i].license # Null => extensions.notfound[i].repoUrl # Null
    /\ \A i \in DOMAIN branches :
          branches[i] \in {"license", "fulfilled"} => extensions.notfound[i].repoUrl # Null
    /\ \A i \in DOMAIN result.notFoundWithlicense :
          result.notFoundWithlicense[i].repoUrl # Null
    /\ \A i \in DOMAIN extensionsToAdd : extensionsToAdd[i].repoUrl # Null

\* licensed candidates are handed to addExtensions
C29_Witness ==
    /\ pc = "addExtensions"
    /\ Len(extensionsToAdd) = 2
    /\ \A i \in DOMAIN extensionsToAdd :
          extensionsToAdd[i].license \in SpdxLicenseIds /\ extensionsToAdd[i].repoUrl # Null

-----------------------------------------------------------------------------
(* A name that is already published *)

AlreadyPublished == "Extension is already published!" \in output

\* C30: when the live lookup of the requested name finds it, the command
\* prints that the extension is already published and exits with status 0
\* at once: the extensions file is neither created nor read, no membership
\* check, enrichment or classification is run, nothing is handed to
\* addExtensions and nothing is written, with --itself and with any other
\* flags.
C30_AlreadyPublishedExitsFirst ==
    [][/\ (pc = "selfLookup" /\ pc' # pc)
            => \/ /\ AlreadyPublished'
                  /\ pc' = "done"
                  /\ exitCode' = 0
                  /\ file' = file
                  /\ output' = output \cup {"Extension is already published!"}
               \/ ~AlreadyPublished' /\ output' = output /\ pc' = "isExtensionPack"
       /\ AlreadyPublished'
            => /\ pc' = "done"
               /\ exitCode' = 0
               /\ writes' = << >>
               /\ openVsxExtensionList' = {}
               /\ lookups' = << >>
               /\ extensions' = NoExtensions
               /\ branches' = << >>
               /\ result' = NoResult
               /\ extensionsToAdd' = << >>
               /\ added' = [extensions |-> << >>, pushed |-> << >>]
               /\ hooks' = << >>]_vars

\* found with --itself and the other flag given, and the file still missing
C30_Witness ==
    /\ AlreadyPublished
    /\ pc = "done"
    /\ argv = Flags
    /\ ~file.exists

====
